---- MODULE Spec2Model ----
(***************************************************************************)
(* oerpfs: a FUSE bridge exposing OpenERP attachments, a CSV import        *)
(* drop-box and the document tree as a filesystem (src/oerpfs.py).         *)
(*                                                                         *)
(* A path is kept as the list path.split('/')[1:] that every handler       *)
(* computes from it, so '/' is <<"">> and '/partner/7' is                  *)
(* <<"partner", "7">>.  A handler is an operator from the mount's state    *)
(* (a record S) and its arguments to an outcome record                     *)
(*     [st |-> the state it leaves, res |-> what it returned or raised,    *)
(*      cur |-> the number of cursors it opened and did not close].        *)
(* Python exceptions leave the mutations made before the raise in place.   *)
(***************************************************************************)
EXTENDS Integers, Sequences, FiniteSets, TLC

VARIABLES
    fstype,     \* directory.type chosen at mount: which fuseClass runs
    files,      \* self.files: path -> StringIO
    atts,       \* the ir.attachment table, in id order
    recs,       \* ids of the records of each model of the pool
    docs,       \* the document tree: node path -> node
    imports,    \* calls received by import_data, oldest first
    last,       \* the call fuse is answering: its name, arguments and outcome
    focus,      \* which inputs the calls of this run are drawn from
    rt,         \* how far the calls so far follow the write-and-read-back sequence
    threads,    \* the fuse worker threads inside a handler: call and position
    start       \* the mount's state when the worker threads took their calls

vars ==
    <<fstype, focus, files, atts, recs, docs, imports, last, rt, threads,
      start>>

-----------------------------------------------------------------------------
(* Bounds of the model *)

MaxOpen == 1        \* buffers held in self.files at one time
MaxAtt == 2         \* ir.attachment rows held at one time
MaxImports == 1     \* import_data calls recorded

(* errno.ENOENT *)
ENOENT == 2

-----------------------------------------------------------------------------
(* Python values *)

Min(a, b) == IF a < b THEN a ELSE b
Max(a, b) == IF a > b THEN a ELSE b

\* s[i:j] for 0 <= i, 0 <= j
Slice(s, i, j) == SubSeq(s, Min(i, Len(s)) + 1, Min(j, Len(s)))

\* '\0' * n
Zeros(n) == [k \in 1..n |-> 0]

\* What a handler hands back to fuse: a value (tag, val) or an exception (exc).
Return(tag, val) == [exc |-> "", tag |-> tag, val |-> val]
ReturnNone == Return("none", 0)
NotFound == Return("errno", -ENOENT)
Raise(e) == [exc |-> e, tag |-> "none", val |-> 0]

Out(st, res, cur) == [st |-> st, res |-> res, cur |-> cur]

IsNotFound(res) == res.exc = "" /\ res.tag = "errno" /\ res.val = -ENOENT
IsOk(res) == res.exc = "" /\ res.tag # "errno"

\* int(s) of the id segments the model uses; any other string raises ValueError
IntLiterals == {"7", "9"}
CanInt(s) == s \in IntLiterals
int(s) == CASE s = "7" -> 7 [] s = "9" -> 9 [] OTHER -> -1

\* str(n) of a record id
str(n) == CASE n = 7 -> "7" [] n = 9 -> "9" [] OTHER -> "?"

-----------------------------------------------------------------------------
(* StringIO.StringIO (Python 2): buf is the text held, len the length the
   object believes it has, pos the file position. *)

StringIO(s) == [buf |-> s, len |-> Len(s), pos |-> 0]

SIO_seek(b, p) == [b EXCEPT !.pos = Max(0, p)]

\* read(n): r = buf[pos:newpos], newpos = min(pos + n, len)
SIO_readpos(b, n) == IF n < 0 THEN b.len ELSE Min(b.pos + n, b.len)
SIO_readval(b, n) == Slice(b.buf, b.pos, SIO_readpos(b, n))
SIO_read(b, n) == [b EXCEPT !.pos = SIO_readpos(b, n)]

\* write(s): nothing for an empty s; appends at len, pads with NULs past len,
\* splices buf[:spos] + s + buf[newpos:] inside len
SIO_write(b, s) ==
    LET spos == b.pos
        slen == b.len
        newpos == spos + Len(s)
    IN  IF s = <<>> THEN b
        ELSE IF spos = slen
             THEN [buf |-> b.buf \o s, len |-> newpos, pos |-> newpos]
        ELSE IF spos > slen
             THEN [buf |-> b.buf \o Zeros(spos - slen) \o s,
                   len |-> newpos, pos |-> newpos]
        ELSE [buf |-> Slice(b.buf, 0, spos) \o s
                        \o Slice(b.buf, newpos, Len(b.buf)),
              len |-> Max(slen, newpos), pos |-> newpos]

\* truncate(size): buf = getvalue()[:size], len = size, pos pulled back to size
SIO_truncate(b, size) ==
    [buf |-> Slice(b.buf, 0, size), len |-> size, pos |-> Min(b.pos, size)]

SIO_getvalue(b) == b.buf

\* close(): the object drops buf and pos and from then on refuses every call
SIO_close(b) == [closed |-> TRUE]
IsClosed(b) == "closed" \in DOMAIN b

-----------------------------------------------------------------------------
(* base64: three bytes to a group of four characters, the last group padded.
   A group is kept as the bytes it carries. *)

RECURSIVE b64encode(_)
b64encode(s) ==
    IF s = <<>> THEN <<>>
    ELSE <<Slice(s, 0, 3)>> \o b64encode(Slice(s, 3, Len(s)))

RECURSIVE b64decode(_)
b64decode(e) ==
    IF e = <<>> THEN <<>> ELSE Head(e) \o b64decode(Tail(e))

\* the 'datas' column: NULL until written
NoDatas == [null |-> TRUE, b64 |-> <<>>]
Datas(e) == [null |-> FALSE, b64 |-> e]
Truthy(d) == ~d.null /\ d.b64 # <<>>

-----------------------------------------------------------------------------
(* dict operations on self.files *)

Put(f, k, v) == [x \in (DOMAIN f) \cup {k} |-> IF x = k THEN v ELSE f[x]]
Del(f, k) == [x \in (DOMAIN f) \ {k} |-> f[x]]

-----------------------------------------------------------------------------
(* The record store (pool.get(...).search/read/write/create/unlink) *)

\* models registered in ir.model, in the order search returns them
ModelSeq == <<"contact", "partner">>
Models == {ModelSeq[i] : i \in 1..Len(ModelSeq)}

\* an ir.attachment row; the table is kept in id order, 'type' is always
\* binary and datas_fname is never read
Attachment(m, r, n, d) ==
    [res_model |-> m, res_id |-> r, name |-> n, datas |-> d]

\* search([...]): the positions of the matching rows, in id order
RECURSIVE SelectPos(_, _, _)
SelectPos(T, Match(_), i) ==
    IF i > Len(T) THEN <<>>
    ELSE (IF Match(T[i]) THEN <<i>> ELSE <<>>) \o SelectPos(T, Match, i + 1)

\* search on (res_model, res_id, name)
search_name(T, m, r, n) ==
    LET Match(a) == a.res_model = m /\ a.res_id = r /\ a.name = n
    IN  SelectPos(T, Match, 1)

\* (a search that forgets the record id)
search_record_any_id(T, m, r) ==
    LET Match(a) == a.res_model = m
    IN  SelectPos(T, Match, 1)

\* search on (res_model, res_id)
search_record(T, m, r) ==
    LET Match(a) == a.res_model = m /\ a.res_id = r
    IN  SelectPos(T, Match, 1)

InSeq(x, s) == \E i \in 1..Len(s) : s[i] = x

\* write(ids, vals): vals is a function from column names to values
orm_write(T, ids, vals) ==
    [i \in 1..Len(T) |->
        IF InSeq(i, ids)
        THEN [c \in DOMAIN T[i] |-> IF c \in DOMAIN vals THEN vals[c] ELSE T[i][c]]
        ELSE T[i]]

\* unlink(ids)
orm_unlink(T, ids) ==
    LET RECURSIVE Rest(_)
        Rest(i) == IF i > Len(T) THEN <<>>
                   ELSE (IF InSeq(i, ids) THEN <<>> ELSE <<T[i]>>) \o Rest(i + 1)
    IN  Rest(1)

\* the integer column res_id refuses a string that is no number
ColumnOk(s) == CanInt(s)

\* ascending list of a set of ids
RECURSIVE SortedSeq(_)
SortedSeq(X) ==
    IF X = {} THEN <<>>
    ELSE LET m == CHOOSE x \in X : \A y \in X : x <= y
         IN  <<m>> \o SortedSeq(X \ {m})

-----------------------------------------------------------------------------
(* fuse.Stat() as the handlers fill it *)

Stat(type, perm, nlink, size) ==
    [type |-> type, perm |-> perm, nlink |-> nlink, size |-> size]

IsRoot(paths) == paths = <<"">>

\* (a depth test that is off by one)
TooDeep_off_by_one(paths) == Len(paths) > 4

\* len(paths) > 3
TooDeep(paths) == Len(paths) > 3

\* The search domain [('res_model', '=', paths[0]), ('res_id', '=',
\* int(paths[1])), ('name', '=', paths[2])]: the exception building it raises
DomainError(paths) ==
    IF Len(paths) < 2 THEN "IndexError"
    ELSE IF ~CanInt(paths[2]) THEN "ValueError"
    ELSE IF Len(paths) < 3 THEN "IndexError"
    ELSE ""

-----------------------------------------------------------------------------
(* class OerpFS: the buffer table shared by the three mounts *)

\* open: self.files[path] = StringIO()
OerpFS_open(S, path) ==
    Out([S EXCEPT !.files = Put(S.files, path, StringIO(<<>>))], ReturnNone, 0)

\* create: self.files[path] = StringIO()
OerpFS_create(S, path) ==
    Out([S EXCEPT !.files = Put(S.files, path, StringIO(<<>>))], ReturnNone, 0)

\* read, once self.files[path] exists: seek(offset), read(n=size)
OerpFS_read_buffer(S, path, size, offset) ==
    LET b == SIO_seek(S.files[path], offset)
    IN  Out([S EXCEPT !.files = Put(S.files, path, SIO_read(b, size))],
            Return("bytes", SIO_readval(b, size)), 0)

\* write: -ENOENT without a buffer, else seek(offset), write(buf), len(buf)
OerpFS_write(S, path, buf, offset) ==
    IF path \notin DOMAIN S.files
    THEN Out(S, NotFound, 0)
    ELSE LET b == SIO_write(SIO_seek(S.files[path], offset), buf)
         IN  Out([S EXCEPT !.files = Put(S.files, path, b)],
                 Return("int", Len(buf)), 0)

\* truncate: self.files[path].truncate(size=length)
OerpFS_truncate(S, path, length) ==
    IF path \notin DOMAIN S.files
    THEN Out(S, Raise("KeyError"), 0)
    ELSE Out([S EXCEPT !.files = Put(S.files, path,
                                     SIO_truncate(S.files[path], length))],
             ReturnNone, 0)

\* release: close the StringIO and delete the entry
OerpFS_release(S, path) ==
    IF path \notin DOMAIN S.files
    THEN Out(S, Raise("KeyError"), 0)
    ELSE Out([S EXCEPT !.files = Del(S.files, path)], ReturnNone, 0)

-----------------------------------------------------------------------------
(* class OerpFSModel: attachments under /model/record_id/name *)

\* (a size taken from the base64 text instead of the bytes it encodes)
AttachmentSize_encoded(d) == IF Truthy(d) THEN 4 * Len(d.b64) ELSE 0

\* st_size = datas and len(base64.b64decode(datas)) or 0
AttachmentSize(d) == IF Truthy(d) THEN Len(b64decode(d.b64)) ELSE 0

OerpFSModel_getattr(S, paths) ==
    IF IsRoot(paths) THEN Out(S, Return("stat", Stat("dir", "0600", 0, 0)), 0)
    ELSE IF TooDeep(paths) THEN Out(S, NotFound, 0)
    ELSE IF paths[1] \notin Models THEN Out(S, NotFound, 0)
    ELSE IF Len(paths) = 1
         THEN Out(S, Return("stat", Stat("dir", "0600", 0, 0)), 0)
    ELSE IF ~CanInt(paths[2]) THEN Out(S, Raise("ValueError"), 1)
    ELSE IF int(paths[2]) \notin S.recs[paths[1]] THEN Out(S, NotFound, 0)
    ELSE IF Len(paths) = 2
         THEN Out(S, Return("stat", Stat("dir", "0600", 0, 0)), 0)
    ELSE LET ids == search_name(S.atts, paths[1], int(paths[2]), paths[3])
         IN  IF ids = <<>> THEN Out(S, NotFound, 0)
             ELSE Out(S, Return("stat", Stat("reg", "0600", 2,
                                AttachmentSize(S.atts[ids[1]].datas))), 0)

\* the names readdir yields at depth 2 and below
ListAttachments(S, paths) ==
    LET ids == search_record(S.atts, paths[1], int(paths[2]))
    IN  [i \in 1..Len(ids) |-> S.atts[ids[i]].name]

\* the ids readdir yields at depth 1
ListRecords(S, paths) ==
    LET ids == SortedSeq(S.recs[paths[1]])
    IN  [i \in 1..Len(ids) |-> str(ids[i])]

\* readdir, consumed to its end
OerpFSModel_readdir(S, paths) ==
    IF IsRoot(paths) THEN Out(S, Return("list", <<".", "..">> \o ModelSeq), 0)
    ELSE IF Len(paths) = 1
         THEN IF paths[1] \notin Models
              THEN Out(S, Raise("AttributeError"), 1)
              ELSE Out(S, Return("list", <<".", "..">> \o ListRecords(S, paths)), 0)
    ELSE IF ~CanInt(paths[2]) THEN Out(S, Raise("ValueError"), 1)
    ELSE Out(S, Return("list", <<".", "..">> \o ListAttachments(S, paths)), 0)

\* the values rename writes on the rows it found
RenameVals(new_paths) ==
    [res_model |-> new_paths[1], res_id |-> int(new_paths[2]),
     name |-> new_paths[3]]

OerpFSModel_rename(S, old_paths, new_paths) ==
    IF DomainError(old_paths) # "" THEN Out(S, Raise(DomainError(old_paths)), 1)
    ELSE IF Len(new_paths) < 3 THEN Out(S, Raise("IndexError"), 1)
    ELSE LET ids == search_name(S.atts, old_paths[1], int(old_paths[2]),
                                old_paths[3])
         IN  IF ids = <<>> THEN Out(S, ReturnNone, 0)
             ELSE IF ~ColumnOk(new_paths[2]) THEN Out(S, Raise("DataError"), 1)
             ELSE Out([S EXCEPT !.atts = orm_write(S.atts, ids,
                                                   RenameVals(new_paths))],
                      ReturnNone, 0)

\* the buffer open leaves for the rows it found
FetchBuffer(d) == StringIO(b64decode(d.b64))

OerpFSModel_open(S, paths) ==
    LET S1 == OerpFS_open(S, paths).st
    IN  IF DomainError(paths) # "" THEN Out(S1, Raise(DomainError(paths)), 1)
        ELSE LET ids == search_name(S.atts, paths[1], int(paths[2]), paths[3])
             IN  IF ids = <<>> THEN Out(S1, Raise("IndexError"), 1)
                 ELSE IF Truthy(S.atts[ids[1]].datas)
                      THEN Out([S1 EXCEPT !.files = Put(S1.files, paths,
                                    FetchBuffer(S.atts[ids[1]].datas))],
                               ReturnNone, 0)
                      ELSE Out(S1, ReturnNone, 0)

OerpFSModel_create(S, paths) ==
    LET S1 == OerpFS_create(S, paths).st
    IN  IF Len(paths) < 3 THEN Out(S1, Raise("IndexError"), 1)
        ELSE IF ~ColumnOk(paths[2]) THEN Out(S1, Raise("DataError"), 1)
        ELSE Out([S1 EXCEPT
                    !.atts = Append(S.atts, Attachment(paths[1], int(paths[2]),
                                                       paths[3], NoDatas))],
                 ReturnNone, 0)

\* (a flush that re-asserts the row's identity and forgets its content)
FlushVals_without_datas(paths, value) ==
    [res_model |-> paths[1], res_id |-> int(paths[2]), name |-> paths[3]]

\* the values flush writes on the rows it found
FlushVals(paths, value) ==
    [datas |-> Datas(b64encode(value)), res_model |-> paths[1],
     res_id |-> int(paths[2]), name |-> paths[3]]

OerpFSModel_flush(S, paths) ==
    IF paths \notin DOMAIN S.files THEN Out(S, Raise("KeyError"), 1)
    ELSE IF DomainError(paths) # "" THEN Out(S, Raise(DomainError(paths)), 1)
    ELSE LET ids == search_name(S.atts, paths[1], int(paths[2]), paths[3])
         IN  Out([S EXCEPT !.atts = orm_write(S.atts, ids,
                        FlushVals(paths, SIO_getvalue(S.files[paths])))],
                 ReturnNone, 0)

OerpFSModel_unlink(S, paths) ==
    IF DomainError(paths) # "" THEN Out(S, Raise(DomainError(paths)), 1)
    ELSE LET ids == search_name(S.atts, paths[1], int(paths[2]), paths[3])
         IN  Out([S EXCEPT !.atts = orm_unlink(S.atts, ids)], ReturnNone, 0)

-----------------------------------------------------------------------------
(* class OerpFSCsvImport: files dropped in the root are imported on release *)

LF == 10
COMMA == 44
NUL == 0

\* the text up to and including the first LF, or all of it
RECURSIVE FirstLineLen(_, _)
FirstLineLen(s, i) ==
    IF i > Len(s) THEN Len(s)
    ELSE IF s[i] = LF THEN i ELSE FirstLineLen(s, i + 1)

\* the fields of one line (its LF dropped): split on the comma
RECURSIVE SplitFields(_, _)
SplitFields(s, field) ==
    IF s = <<>> THEN <<field>>
    ELSE IF Head(s) = COMMA THEN <<field>> \o SplitFields(Tail(s), <<>>)
    ELSE SplitFields(Tail(s), Append(field, Head(s)))

\* csv.reader's row for a line: [] for a blank line
CsvRow(line) ==
    LET body == IF line # <<>> /\ line[Len(line)] = LF
                THEN SubSeq(line, 1, Len(line) - 1) ELSE line
    IN  IF body = <<>> THEN <<>> ELSE SplitFields(body, <<>>)

\* list(csv.reader(value)) for a text without NUL bytes
RECURSIVE CsvRows(_)
CsvRows(s) ==
    IF s = <<>> THEN <<>>
    ELSE LET n == FirstLineLen(s, 1)
         IN  <<CsvRow(SubSeq(s, 1, n))>> \o CsvRows(SubSeq(s, n + 1, Len(s)))

HasNul(s) == \E i \in 1..Len(s) : s[i] = NUL

\* name.replace('.csv', '') for the file names of the model
StrReplaceCsv(name) ==
    CASE name = "contact.csv" -> "contact"
      [] name = "contact.csv.csv" -> "contact"
      [] name = "nomodel.csv" -> "nomodel"
      [] OTHER -> name

\* path.replace('.csv', '')[1:]; a deeper path keeps its '/' and names no model
CsvModel(paths) == IF Len(paths) = 1 THEN StrReplaceCsv(paths[1]) ELSE ""

OerpFSCsvImport_getattr(S, paths) ==
    IF IsRoot(paths) THEN Out(S, Return("stat", Stat("dir", "0200", 0, 0)), 0)
    ELSE IF paths \in DOMAIN S.files
         THEN Out(S, Return("stat", Stat("reg", "0200", 1, 0)), 0)
    ELSE Out(S, NotFound, 0)

\* the keys of a dict in the order iteration gives them
RECURSIVE KeysOf(_)
KeysOf(X) ==
    IF X = {} THEN <<>>
    ELSE LET k == CHOOSE x \in X : TRUE IN <<k>> \o KeysOf(X \ {k})

\* readdir: '.', '..' and every buffered path
OerpFSCsvImport_readdir(S, paths) ==
    Out(S, Return("entries", [dots |-> <<".", "..">>,
                              paths |-> KeysOf(DOMAIN S.files)]), 0)

\* the call release makes on the import sink
ImportCall(model, lines) ==
    [target |-> model, fields |-> lines[1],
     rows |-> SubSeq(lines, 2, Len(lines)), mode |-> "init"]

\* release; sinkRaises is whether import_data raises
OerpFSCsvImport_release(S, paths, sinkRaises) ==
    IF paths \notin DOMAIN S.files THEN Out(S, Raise("KeyError"), 1)
    ELSE LET value == SIO_getvalue(S.files[paths])
             lines == CsvRows(value)
             model == CsvModel(paths)
         IN  IF HasNul(value) THEN Out(S, Raise("csv.Error"), 1)
             ELSE IF model \notin Models THEN Out(S, Raise("AttributeError"), 1)
             ELSE IF lines = <<>> THEN Out(S, Raise("IndexError"), 1)
             ELSE LET S1 == [S EXCEPT !.imports =
                                Append(S.imports, ImportCall(model, lines))]
                  IN  IF sinkRaises THEN Out(S1, Raise("except_orm"), 1)
                      ELSE Out([S1 EXCEPT !.files = Del(S.files, paths)],
                               Raise("AttributeError"), 0)

-----------------------------------------------------------------------------
(* class OerpFSDocument: the document tree. docs maps the segments of a node's
   uri to [our_type, data]; the root is <<>>. *)

Node(t, d) == [our_type |-> t, data |-> d]

\* _get_node: '/' is looked up as the empty uri
NodeUri(paths) == IF IsRoot(paths) THEN <<>> ELSE paths
HasNode(S, paths) == NodeUri(paths) \in DOMAIN S.docs
GetNode(S, paths) == S.docs[NodeUri(paths)]

\* '/'.join(path.split('/')[:-1]) as a uri
ParentUri(paths) == SubSeq(paths, 1, Len(paths) - 1)
LastName(paths) == paths[Len(paths)]

\* (a test of the node's kind that forgets the database root)
IsDir_collection_only(n) == n.our_type = "collection"

\* node.our_type in ('database', 'collection')
IsDir(n) == n.our_type \in {"database", "collection"}

OerpFSDocument_getattr(S, paths) ==
    IF ~HasNode(S, paths) THEN Out(S, NotFound, 0)
    ELSE IF IsDir(GetNode(S, paths))
         THEN Out(S, Return("stat", Stat("dir", "0600", 0, 0)), 0)
    ELSE IF GetNode(S, paths).our_type = "file"
         THEN Out(S, Return("stat", Stat("reg", "0600", 0,
                                         Len(GetNode(S, paths).data))), 0)
    ELSE Out(S, Return("stat", Stat("reg", "0000", 0, 0)), 0)

\* node.children(cr): the display names of the nodes right under a uri
Children(S, uri) ==
    LET kids == {u \in DOMAIN S.docs :
                    Len(u) = Len(uri) + 1 /\ SubSeq(u, 1, Len(uri)) = uri}
        names == KeysOf(kids)
    IN  [i \in 1..Len(names) |-> LastName(names[i])]

OerpFSDocument_readdir(S, paths) ==
    IF ~HasNode(S, paths) THEN Out(S, Raise("AttributeError"), 1)
    ELSE IF ~IsDir(GetNode(S, paths)) THEN Out(S, Return("list", <<".", "..">>), 0)
    ELSE Out(S, Return("list", <<".", "..">> \o Children(S, NodeUri(paths))), 0)

\* node.move_to(cr, new_dir_node, new_name) on a file node
OerpFSDocument_rename(S, old_paths, new_paths) ==
    LET old == NodeUri(old_paths)
        dir == ParentUri(new_paths)
        new == Append(dir, LastName(new_paths))
    IN  IF old \notin DOMAIN S.docs THEN Out(S, Raise("AttributeError"), 1)
        ELSE IF S.docs[old].our_type # "file" THEN Out(S, Raise("except_orm"), 1)
        ELSE IF dir \notin DOMAIN S.docs \/ ~IsDir(S.docs[dir])
             THEN Out(S, Raise("except_orm"), 1)
        ELSE IF new \in DOMAIN S.docs \/ LastName(new_paths) = ""
             THEN Out(S, Raise("except_orm"), 1)
        ELSE Out([S EXCEPT !.docs = Put(Del(S.docs, old), new, S.docs[old])],
                 ReturnNone, 0)

OerpFSDocument_open(S, paths) ==
    LET S1 == OerpFS_open(S, paths).st
    IN  IF ~HasNode(S, paths) THEN Out(S1, Raise("AttributeError"), 1)
        ELSE IF GetNode(S, paths).our_type # "file"
             THEN Out(S1, Raise("TypeError"), 1)
        ELSE Out([S1 EXCEPT !.files = Put(S1.files, paths,
                                          StringIO(GetNode(S, paths).data))],
                 ReturnNone, 0)

OerpFSDocument_create(S, paths) ==
    LET S1 == OerpFS_create(S, paths).st
        dir == ParentUri(paths)
    IN  IF dir \notin DOMAIN S.docs THEN Out(S1, Raise("AttributeError"), 1)
        ELSE IF ~IsDir(S.docs[dir]) THEN Out(S1, Raise("except_orm"), 1)
        ELSE IF Append(dir, LastName(paths)) \in DOMAIN S.docs
                \/ LastName(paths) = ""
             THEN Out(S1, Raise("except_orm"), 1)
        ELSE Out([S1 EXCEPT !.docs = Put(S.docs, Append(dir, LastName(paths)),
                                         Node("file", <<>>))],
                 ReturnNone, 0)

OerpFSDocument_flush(S, paths) ==
    IF paths \notin DOMAIN S.files THEN Out(S, Raise("KeyError"), 1)
    ELSE IF ~HasNode(S, paths) THEN Out(S, Raise("AttributeError"), 1)
    ELSE IF GetNode(S, paths).our_type # "file" THEN Out(S, Raise("TypeError"), 1)
    ELSE Out([S EXCEPT !.docs = Put(S.docs, NodeUri(paths),
                            Node("file", SIO_getvalue(S.files[paths])))],
             ReturnNone, 0)

OerpFSDocument_unlink(S, paths) ==
    IF ~HasNode(S, paths) THEN Out(S, Raise("AttributeError"), 1)
    ELSE IF GetNode(S, paths).our_type # "file" THEN Out(S, Raise("except_orm"), 1)
    ELSE Out([S EXCEPT !.docs = Del(S.docs, NodeUri(paths))], ReturnNone, 0)

-----------------------------------------------------------------------------
(* What fuse dispatches to: the method of the mounted class *)

State ==
    [files |-> files, atts |-> atts, recs |-> recs, docs |-> docs,
     imports |-> imports]

HasMethod(fs, op) == fs # "csv_import" \/ op \notin {"flush", "unlink", "rename"}

getattr(fs, S, path) ==
    CASE fs = "attachment" -> OerpFSModel_getattr(S, path)
      [] fs = "csv_import" -> OerpFSCsvImport_getattr(S, path)
      [] OTHER -> OerpFSDocument_getattr(S, path)

readdir(fs, S, path) ==
    CASE fs = "attachment" -> OerpFSModel_readdir(S, path)
      [] fs = "csv_import" -> OerpFSCsvImport_readdir(S, path)
      [] OTHER -> OerpFSDocument_readdir(S, path)

open(fs, S, path) ==
    CASE fs = "attachment" -> OerpFSModel_open(S, path)
      [] fs = "csv_import" -> OerpFS_open(S, path)
      [] OTHER -> OerpFSDocument_open(S, path)

create(fs, S, path) ==
    CASE fs = "attachment" -> OerpFSModel_create(S, path)
      [] fs = "csv_import" -> OerpFS_create(S, path)
      [] OTHER -> OerpFSDocument_create(S, path)

\* OerpFS.read: self.open(path, None) first when the path has no buffer
read(fs, S, path, size, offset) ==
    IF path \in DOMAIN S.files THEN OerpFS_read_buffer(S, path, size, offset)
    ELSE LET o == open(fs, S, path)
         IN  IF o.res.exc # "" THEN o
             ELSE LET r == OerpFS_read_buffer(o.st, path, size, offset)
                  IN  Out(r.st, r.res, o.cur + r.cur)

write(fs, S, path, buf, offset) == OerpFS_write(S, path, buf, offset)

truncate(fs, S, path, length) == OerpFS_truncate(S, path, length)

flush(fs, S, path) ==
    CASE fs = "attachment" -> OerpFSModel_flush(S, path)
      [] OTHER -> OerpFSDocument_flush(S, path)

release(fs, S, path, sinkRaises) ==
    CASE fs = "csv_import" -> OerpFSCsvImport_release(S, path, sinkRaises)
      [] OTHER -> OerpFS_release(S, path)

unlink(fs, S, path) ==
    CASE fs = "attachment" -> OerpFSModel_unlink(S, path)
      [] OTHER -> OerpFSDocument_unlink(S, path)

rename(fs, S, old_path, new_path) ==
    CASE fs = "attachment" -> OerpFSModel_rename(S, old_path, new_path)
      [] OTHER -> OerpFSDocument_rename(S, old_path, new_path)

-----------------------------------------------------------------------------
(* The calls the model makes *)

FsTypes == {"attachment", "csv_import", "document"}

\* An attachment mount is explored twice: with every kind of path and one kind
\* of write ("names"), and with one file and every kind of write ("data").
Focuses == {"names", "data"}

Root == <<"">>
P7 == <<"partner", "7", "a.txt">>
P9 == <<"partner", "9", "a.txt">>

PathsOf(fs, fo) ==
    CASE fs = "attachment" /\ fo = "names" ->
            {Root, <<"partner">>, <<"partner", "7">>, <<"partner", "x">>,
             P7, P9, <<"partner", "7", "a.txt", "z">>}
      [] fs = "attachment" /\ fo = "data" -> {P7, <<"partner", "x">>}
      [] fs = "csv_import" ->
            {Root, <<"contact.csv">>, <<"contact.csv.csv">>}
      [] OTHER ->
            {Root, <<"dir">>, <<"dir", "f.txt">>, <<"dir", "g.txt">>,
             <<"odd">>, <<"nodir", "f.txt">>}

\* the paths write and truncate are called on, and the targets of rename
FilePathsOf(fs, fo) ==
    CASE fs = "attachment" /\ fo = "names" -> {P7, P9}
      [] fs = "attachment" /\ fo = "data" -> {P7}
      [] fs = "csv_import" -> {<<"contact.csv">>, <<"contact.csv.csv">>}
      [] OTHER -> {<<"dir", "f.txt">>, <<"dir", "g.txt">>}

\* the paths rename is given as its target
TargetsOf(fs, fo) ==
    IF fs = "attachment" /\ fo = "names"
    THEN {P7, P9, <<"partner", "x", "a.txt">>}
    ELSE FilePathsOf(fs, fo)

DataOf(fs, fo) ==
    CASE fs = "csv_import" -> {<<97, LF>>, <<97, COMMA>>}
      [] fs = "attachment" /\ fo = "names" -> {<<97>>}
      [] OTHER -> {<<>>, <<97>>}

OffsetsOf(fs, fo) ==
    CASE fs = "csv_import" -> {0, 2}
      [] fs = "attachment" /\ fo = "names" -> {0}
      [] OTHER -> {0, 1}

LengthsOf(fs, fo) ==
    IF fs = "attachment" /\ fo = "names" THEN {0} ELSE {0, 2}

Sizes == {4}

\* the record the environment adds to and removes from model partner
EnvRecord == 9

InitialAttachment ==
    Attachment("partner", 7, "a.txt", Datas(b64encode(<<98>>)))

InitialDocs ==
    (<<>> :> Node("database", <<>>)) @@ (<<"dir">> :> Node("collection", <<>>))
    @@ (<<"dir", "f.txt">> :> Node("file", <<97>>))
    @@ (<<"odd">> :> Node("content", <<>>))

NoCall ==
    [op |-> "", path |-> <<>>, path2 |-> <<>>, buf |-> <<>>, size |-> 0,
     offset |-> 0, res |-> ReturnNone, cur |-> 0]

Call(op, path) == [NoCall EXCEPT !.op = op, !.path = path]

\* open found a row for the path
ExistsAttachment(S, paths) ==
    /\ DomainError(paths) = ""
    /\ search_name(S.atts, paths[1], int(paths[2]), paths[3]) # <<>>

\* The sequence open(p), truncate(p, 0), write(p, B, 0), flush(p), release(p),
\* open(p), read(p, size >= len(B), 0) on an attachment p that exists at the
\* first open: the number of its calls made so far, with p and B.
NoTrip == [stage |-> 0, path |-> <<>>, buf |-> <<>>]

TripNext(t, c) ==
    CASE t.stage = 1 /\ c.op = "truncate" /\ c.path = t.path /\ c.size = 0 ->
            [t EXCEPT !.stage = 2]
      [] t.stage = 2 /\ c.op = "write" /\ c.path = t.path /\ c.offset = 0 ->
            [t EXCEPT !.stage = 3, !.buf = c.buf]
      [] t.stage = 3 /\ c.op = "flush" /\ c.path = t.path ->
            [t EXCEPT !.stage = 4]
      [] t.stage = 4 /\ c.op = "release" /\ c.path = t.path ->
            [t EXCEPT !.stage = 5]
      [] t.stage = 5 /\ c.op = "open" /\ c.path = t.path ->
            [t EXCEPT !.stage = 6]
      [] t.stage = 6 /\ c.op = "read" /\ c.path = t.path /\ c.offset = 0
            /\ c.size >= Len(t.buf) ->
            [t EXCEPT !.stage = 7]
      [] OTHER -> NoTrip

TripStep(t, c, exists) ==
    IF TripNext(t, c) # NoTrip THEN TripNext(t, c)
    ELSE IF c.op = "open" /\ exists /\ fstype = "attachment"
         THEN [stage |-> 1, path |-> c.path, buf |-> <<>>]
    ELSE NoTrip

\* fuse takes the next call once it has answered the last one
Idle == last.op = ""

\* the state a handler leaves and the record of the call
Commit(o, call) ==
    /\ Idle
    /\ rt' = TripStep(rt, call, ExistsAttachment(State, call.path))
    /\ files' = o.st.files
    /\ atts' = o.st.atts
    /\ recs' = o.st.recs
    /\ docs' = o.st.docs
    /\ imports' = o.st.imports
    /\ last' = [call EXCEPT !.res = o.res, !.cur = o.cur]
    /\ UNCHANGED <<fstype, focus, threads, start>>

\* a call may add a buffer only while the table has room
Room(path) == path \in DOMAIN files \/ Cardinality(DOMAIN files) < MaxOpen

Paths == PathsOf(fstype, focus)
FilePaths == FilePathsOf(fstype, focus)
Offsets == OffsetsOf(fstype, focus)

Init ==
    /\ fstype \in FsTypes
    /\ focus \in IF fstype = "attachment" THEN Focuses ELSE {"data"}
    /\ files = <<>>
    /\ atts \in {<<>>, <<InitialAttachment>>}
    /\ recs = [m \in Models |-> IF m = "partner" THEN {7} ELSE {}]
    /\ docs = InitialDocs
    /\ imports = <<>>
    /\ last = NoCall
    /\ rt = NoTrip
    /\ threads = <<>>
    /\ start = <<>>

Getattr ==
    \E path \in Paths :
        Commit(getattr(fstype, State, path), Call("getattr", path))

Readdir ==
    \E path \in Paths :
        Commit(readdir(fstype, State, path), Call("readdir", path))

Open ==
    \E path \in Paths :
        /\ Room(path)
        /\ Commit(open(fstype, State, path), Call("open", path))

Create ==
    \E path \in Paths :
        /\ Room(path)
        /\ Len(atts) < MaxAtt
        /\ Commit(create(fstype, State, path), Call("create", path))

Read ==
    \E path \in Paths, size \in Sizes, offset \in Offsets :
        /\ Room(path)
        /\ Commit(read(fstype, State, path, size, offset),
                  [Call("read", path) EXCEPT !.size = size, !.offset = offset])

Write ==
    \E path \in FilePaths, buf \in DataOf(fstype, focus), offset \in Offsets :
        Commit(write(fstype, State, path, buf, offset),
               [Call("write", path) EXCEPT !.buf = buf, !.offset = offset])

Truncate ==
    \E path \in FilePaths, length \in LengthsOf(fstype, focus) :
        Commit(truncate(fstype, State, path, length),
               [Call("truncate", path) EXCEPT !.size = length])

Flush ==
    \E path \in Paths :
        /\ HasMethod(fstype, "flush")
        /\ Commit(flush(fstype, State, path), Call("flush", path))

Release ==
    \E path \in Paths, sinkRaises \in BOOLEAN :
        /\ fstype = "csv_import" \/ ~sinkRaises
        /\ Len(imports) < MaxImports
        /\ Commit(release(fstype, State, path, sinkRaises),
                  Call("release", path))

Unlink ==
    \E path \in Paths :
        /\ HasMethod(fstype, "unlink")
        /\ Commit(unlink(fstype, State, path), Call("unlink", path))

Rename ==
    \E old_path \in Paths, new_path \in TargetsOf(fstype, focus) :
        /\ HasMethod(fstype, "rename")
        /\ Commit(rename(fstype, State, old_path, new_path),
                  [Call("rename", old_path) EXCEPT !.path2 = new_path])

\* another user of the database creates or deletes a record of model partner
EnvRecords ==
    /\ Idle
    /\ fstype = "attachment" /\ focus = "names"
    /\ recs' = [recs EXCEPT !["partner"] =
                    IF EnvRecord \in @ THEN @ \ {EnvRecord}
                    ELSE @ \cup {EnvRecord}]
    /\ rt' = NoTrip
    /\ UNCHANGED <<fstype, focus, files, atts, docs, imports, last, threads,
                   start>>

\* fuse hands the outcome of the call to the kernel
Reply ==
    /\ ~Idle
    /\ last' = NoCall
    /\ UNCHANGED <<fstype, focus, files, atts, recs, docs, imports, rt,
                   threads, start>>

Next ==
    \/ Getattr \/ Readdir \/ Open \/ Create \/ Read \/ Write \/ Truncate
    \/ Flush \/ Release \/ Unlink \/ Rename \/ EnvRecords \/ Reply

Spec == Init /\ [][Next]_vars

-----------------------------------------------------------------------------
(* Two fuse worker threads inside handlers of one attachment mount          *)
(* (mount_point.multithreaded = True).  No handler takes a lock, so a step  *)
(* of a thread is one statement of its handler and the other thread may run *)
(* between any two of them.                                                 *)

Threads == {1, 2}

\* the path both threads are called on
MTPath == P7

ThreadCall(op, buf, size, offset) ==
    [op |-> op, buf |-> buf, size |-> size, offset |-> offset,
     pc |-> CASE op = "flush" -> "snapshot"
              [] op = "truncate" -> "data"
              [] op = "release" -> "close"
              [] OTHER -> "check",
     res |-> ReturnNone, value |-> <<>>]

ThreadCalls ==
    {ThreadCall("write", buf, 0, offset) : buf \in {<<97>>}, offset \in {0, 1}}
    \cup {ThreadCall("read", <<>>, 2, offset) : offset \in {0, 1}}
    \cup {ThreadCall("flush", <<>>, 0, 0)}
    \cup {ThreadCall("truncate", <<>>, 1, 0)}
    \cup {ThreadCall("release", <<>>, 0, 0)}

InitMT ==
    /\ fstype = "attachment"
    /\ focus = "data"
    /\ files \in {<<>>} \cup {(MTPath :> StringIO(s)) :
                                s \in {<<>>, <<98>>, <<98, 99>>}}
    /\ atts \in {<<>>, <<InitialAttachment>>}
    /\ recs = [m \in Models |-> IF m = "partner" THEN {7} ELSE {}]
    /\ docs = InitialDocs
    /\ imports = <<>>
    /\ last = NoCall
    /\ rt = NoTrip
    /\ threads \in [Threads -> ThreadCalls]
    /\ start = State

At(t, op, pc) == threads[t].op = op /\ threads[t].pc = pc

Goto(t, pc) == [threads EXCEPT ![t].pc = pc]

Finish(t, res) == [threads EXCEPT ![t].pc = "done", ![t].res = res]

\* what self.files[path].method() raises: KeyError when the entry is gone,
\* ValueError (I/O operation on closed file) when the StringIO is closed
Broken ==
    IF MTPath \notin DOMAIN files THEN "KeyError"
    ELSE IF IsClosed(files[MTPath]) THEN "ValueError"
    ELSE ""

\* the statement of thread t raises e: the handler ends there
Fails(t, e) == threads' = Finish(t, Raise(e)) /\ UNCHANGED <<files, atts>>

\* write: if not path in self.files: return -ENOENT
WriteCheck ==
    \E t \in Threads :
        /\ At(t, "write", "check")
        /\ threads' = IF MTPath \in DOMAIN files THEN Goto(t, "seek")
                      ELSE Finish(t, NotFound)
        /\ UNCHANGED <<fstype, focus, files, atts, recs, docs, imports, last,
                       rt, start>>

\* write: self.files[path].seek(offset)
WriteSeek ==
    \E t \in Threads :
        /\ At(t, "write", "seek")
        /\ IF Broken # "" THEN Fails(t, Broken)
           ELSE /\ files' = Put(files, MTPath,
                                SIO_seek(files[MTPath], threads[t].offset))
                /\ threads' = Goto(t, "data")
                /\ UNCHANGED atts
        /\ UNCHANGED <<fstype, focus, recs, docs, imports, last, rt, start>>

\* write: self.files[path].write(buf); return len(buf)
WriteData ==
    \E t \in Threads :
        /\ At(t, "write", "data")
        /\ IF Broken # "" THEN Fails(t, Broken)
           ELSE /\ files' = Put(files, MTPath,
                                SIO_write(files[MTPath], threads[t].buf))
                /\ threads' = Finish(t, Return("int", Len(threads[t].buf)))
                /\ UNCHANGED atts
        /\ UNCHANGED <<fstype, focus, recs, docs, imports, last, rt, start>>

\* read: if not path in self.files: self.open(path, None)
ReadCheck ==
    \E t \in Threads :
        /\ At(t, "read", "check")
        /\ IF MTPath \in DOMAIN files
           THEN /\ threads' = Goto(t, "seek")
                /\ UNCHANGED <<files, atts>>
           ELSE LET o == open(fstype, State, MTPath)
                IN  /\ files' = o.st.files
                    /\ atts' = o.st.atts
                    /\ threads' = IF o.res.exc # "" THEN Finish(t, o.res)
                                  ELSE Goto(t, "seek")
        /\ UNCHANGED <<fstype, focus, recs, docs, imports, last, rt, start>>

\* read: self.files[path].seek(offset)
ReadSeek ==
    \E t \in Threads :
        /\ At(t, "read", "seek")
        /\ IF Broken # "" THEN Fails(t, Broken)
           ELSE /\ files' = Put(files, MTPath,
                                SIO_seek(files[MTPath], threads[t].offset))
                /\ threads' = Goto(t, "data")
                /\ UNCHANGED atts
        /\ UNCHANGED <<fstype, focus, recs, docs, imports, last, rt, start>>

\* read: return self.files[path].read(n=size)
ReadData ==
    \E t \in Threads :
        /\ At(t, "read", "data")
        /\ IF Broken # "" THEN Fails(t, Broken)
           ELSE /\ files' = Put(files, MTPath,
                                SIO_read(files[MTPath], threads[t].size))
                /\ threads' = Finish(t, Return("bytes",
                                SIO_readval(files[MTPath], threads[t].size)))
                /\ UNCHANGED atts
        /\ UNCHANGED <<fstype, focus, recs, docs, imports, last, rt, start>>

\* flush: value = StringIO(self.files[path].getvalue())
FlushSnapshot ==
    \E t \in Threads :
        /\ At(t, "flush", "snapshot")
        /\ threads' = IF Broken # "" THEN Finish(t, Raise(Broken))
                      ELSE [Goto(t, "store") EXCEPT
                                ![t].value = SIO_getvalue(files[MTPath])]
        /\ UNCHANGED <<fstype, focus, files, atts, recs, docs, imports, last,
                       rt, start>>

\* flush: search the rows of the path and write value on them
FlushStore ==
    \E t \in Threads :
        /\ At(t, "flush", "store")
        /\ atts' = orm_write(atts,
                             search_name(atts, MTPath[1], int(MTPath[2]),
                                         MTPath[3]),
                             FlushVals(MTPath, threads[t].value))
        /\ threads' = Finish(t, ReturnNone)
        /\ UNCHANGED <<fstype, focus, files, recs, docs, imports, last, rt,
                       start>>

\* truncate: self.files[path].truncate(size=length)
TruncateData ==
    \E t \in Threads :
        /\ At(t, "truncate", "data")
        /\ IF Broken # "" THEN Fails(t, Broken)
           ELSE /\ files' = Put(files, MTPath,
                                SIO_truncate(files[MTPath], threads[t].size))
                /\ threads' = Finish(t, ReturnNone)
                /\ UNCHANGED atts
        /\ UNCHANGED <<fstype, focus, recs, docs, imports, last, rt, start>>

\* release: self.files[path].close()
ReleaseClose ==
    \E t \in Threads :
        /\ At(t, "release", "close")
        /\ IF MTPath \notin DOMAIN files THEN Fails(t, "KeyError")
           ELSE /\ files' = Put(files, MTPath, SIO_close(files[MTPath]))
                /\ threads' = Goto(t, "del")
                /\ UNCHANGED atts
        /\ UNCHANGED <<fstype, focus, recs, docs, imports, last, rt, start>>

\* release: del self.files[path]
ReleaseDel ==
    \E t \in Threads :
        /\ At(t, "release", "del")
        /\ IF MTPath \notin DOMAIN files THEN Fails(t, "KeyError")
           ELSE /\ files' = Del(files, MTPath)
                /\ threads' = Finish(t, ReturnNone)
                /\ UNCHANGED atts
        /\ UNCHANGED <<fstype, focus, recs, docs, imports, last, rt, start>>

NextMT ==
    \/ WriteCheck \/ WriteSeek \/ WriteData
    \/ ReadCheck \/ ReadSeek \/ ReadData
    \/ FlushSnapshot \/ FlushStore
    \/ TruncateData \/ ReleaseClose \/ ReleaseDel

SpecMT == InitMT /\ [][NextMT]_vars

-----------------------------------------------------------------------------
(* Properties *)

IsAttachmentMount == fstype = "attachment"

\* the state the step leaves
StateNext ==
    [files |-> files', atts |-> atts', recs |-> recs', docs |-> docs',
     imports |-> imports']

\* the step is the call of op
Calls(op) == Idle /\ last'.op = op

\* the entries of a listing after '.' and '..'
Listed(res) == {res.val[i] : i \in 3..Len(res.val)}

(* C1: on an attachment mount, for an attachment that exists at path p and any
   bytes B, the calls open(p), truncate(p, 0), write(p, B, 0), flush(p),
   release(p), open(p), read(p, size >= len(B), 0), made in this order with no
   call between them, end with read returning exactly B. *)
C1_RoundTrip ==
    (rt.stage = 7 /\ ~Idle) => last.op = "read" /\ last.res = Return("bytes", rt.buf)

\* the sequence has run on a file whose stored bytes differed from B
C1_Witness ==
    /\ rt.stage = 7
    /\ rt.buf = <<97>>
    /\ last.op = "read"
    /\ atts # <<>> /\ atts[1].datas = Datas(b64encode(<<97>>))

\* what a handler run alone, start to end, does for the call of a thread
Run(c, S) ==
    CASE c.op = "write" -> write(fstype, S, MTPath, c.buf, c.offset)
      [] c.op = "read" -> read(fstype, S, MTPath, c.size, c.offset)
      [] c.op = "truncate" -> truncate(fstype, S, MTPath, c.size)
      [] c.op = "release" -> release(fstype, S, MTPath, FALSE)
      [] OTHER -> flush(fstype, S, MTPath)

\* what later calls can see of a state: the bytes of each buffer and the rows
Observed(S) ==
    [files |-> [p \in DOMAIN S.files |-> SIO_getvalue(S.files[p])],
     atts |-> S.atts]

\* the two calls run one after the other from the state they started in
InOrder(a, b) ==
    LET o1 == Run(threads[a], start)
        o2 == Run(threads[b], o1.st)
    IN  [seen |-> Observed(o2.st), res |-> (a :> o1.res) @@ (b :> o2.res)]

Concurrently ==
    [seen |-> Observed(State), res |-> [t \in Threads |-> threads[t].res]]

AllDone == threads # <<>> /\ \A t \in Threads : threads[t].pc = "done"

(* C2: two concurrent calls among write, read and flush on one path of one
   mount end as the same two calls run in some sequential order would: the
   same bytes in the buffer, the same rows in the backend and the same value
   returned to each caller. *)
C2_Serializable ==
    (AllDone /\ \A t \in Threads : threads[t].op \in {"write", "read", "flush"})
        => Concurrently \in {InOrder(1, 2), InOrder(2, 1)}

(* C9: on an attachment mount, getattr of a path of four or more segments
   returns -ENOENT whatever rows the table holds and whatever is buffered. *)
C9_DeepPathNotFound ==
    (IsAttachmentMount /\ last.op = "getattr" /\ Len(last.path) >= 4)
        => IsNotFound(last.res)

\* getattr was called on /partner/7/a.txt/z while /partner/7/a.txt was stored
\* and a buffer was open
C9_Witness ==
    /\ IsAttachmentMount /\ last.op = "getattr" /\ Len(last.path) >= 4
    /\ ExistsAttachment(State, SubSeq(last.path, 1, 3))
    /\ DOMAIN files # {}

(* C10: on an attachment mount readdir lists what the database holds when it
   is called: at /model, '.', '..' and exactly the ids of the model's records;
   at /model/id, '.', '..' and exactly the names of the attachments of that
   record.  Right after create(p) returns, readdir of p's record lists p's
   name; right after unlink(p) returns, it does not. *)
C10_Listing ==
    /\ (IsAttachmentMount /\ last.op = "readdir" /\ Len(last.path) = 1
            /\ last.path[1] \in Models)
        => /\ last.res.exc = "" /\ last.res.tag = "list"
           /\ SubSeq(last.res.val, 1, 2) = <<".", "..">>
           /\ Listed(last.res) = {str(r) : r \in recs[last.path[1]]}
           /\ Len(last.res.val) = 2 + Cardinality(recs[last.path[1]])
    /\ (IsAttachmentMount /\ last.op = "readdir" /\ Len(last.path) = 2
            /\ CanInt(last.path[2]))
        => /\ last.res.exc = "" /\ last.res.tag = "list"
           /\ SubSeq(last.res.val, 1, 2) = <<".", "..">>
           /\ Listed(last.res) =
                {atts[i].name : i \in {j \in 1..Len(atts) :
                    /\ atts[j].res_model = last.path[1]
                    /\ atts[j].res_id = int(last.path[2])}}
    /\ (IsAttachmentMount /\ last.op = "create" /\ last.res.exc = "")
        => last.path[3] \in
             Listed(readdir(fstype, State, SubSeq(last.path, 1, 2)).res)
    /\ (IsAttachmentMount /\ last.op = "unlink" /\ last.res.exc = "")
        => last.path[3] \notin
             Listed(readdir(fstype, State, SubSeq(last.path, 1, 2)).res)

\* readdir of /partner/7 listed a name while another record had an attachment
C10_Witness ==
    /\ IsAttachmentMount /\ last.op = "readdir" /\ last.path = <<"partner", "7">>
    /\ last.res.exc = "" /\ Listed(last.res) = {"a.txt"}
    /\ \E i \in 1..Len(atts) : atts[i].res_id = 9


\* the bytes stored in a row
Payload(d) == IF Truthy(d) THEN b64decode(d.b64) ELSE <<>>

(* C3: on an attachment mount, when rename(old, new) returns for an attachment
   stored at the three-segment path old with payload P and another
   three-segment path new, getattr(old) returns -ENOENT and open(new) followed
   by read(new) returns P. *)
C3_RenameMoves ==
    [][(/\ Calls("rename") /\ IsAttachmentMount
        /\ Len(last'.path) = 3 /\ Len(last'.path2) = 3
        /\ last'.path2 # last'.path
        /\ ExistsAttachment(State, last'.path)
        /\ last'.res.exc = "")
       => LET old == last'.path
              new == last'.path2
              ids == search_name(atts, old[1], int(old[2]), old[3])
              P == Payload(atts[ids[1]].datas)
              o == open(fstype, StateNext, new)
          IN  /\ IsNotFound(getattr(fstype, StateNext, old).res)
              /\ o.res.exc = ""
              /\ read(fstype, o.st, new, Len(P) + 1, 0).res = Return("bytes", P)
      ]_vars

\* the file name without a final '.csv'
StripSuffix(name) ==
    CASE name = "contact.csv" -> "contact"
      [] name = "contact.csv.csv" -> "contact.csv"
      [] name = "nomodel.csv" -> "nomodel"
      [] OTHER -> name

(* C4: on a CSV mount, release of a buffered path whose text parses to at
   least one row calls the import sink exactly once, with the first row as
   header, the following rows in order as data, the file name without its
   '.csv' suffix as target type and mode 'init'; no other call reaches the
   sink. *)
C4_ImportOnRelease ==
    [][(Idle /\ fstype = "csv_import" /\ last'.op # "")
       => IF /\ last'.op = "release"
             /\ last'.path \in DOMAIN files
             /\ Len(last'.path) = 1
             /\ ~HasNul(files[last'.path].buf)
             /\ CsvRows(files[last'.path].buf) # <<>>
          THEN LET lines == CsvRows(files[last'.path].buf)
               IN  imports' = Append(imports,
                        [target |-> StripSuffix(last'.path[1]),
                         fields |-> Head(lines), rows |-> Tail(lines),
                         mode |-> "init"])
          ELSE imports' = imports
      ]_vars

(* C5: on a CSV mount, read never returns bytes: whatever was written to the
   mount, buffered at the path read or not, a read returns nothing. *)
C5_NoReadBack ==
    (fstype = "csv_import" /\ last.op = "read" /\ last.res.exc = "")
        => last.res.val = <<>>

(* C6: on an attachment or document mount, a flush of a buffered path that
   follows a flush of the same path, with no call between them, raises nothing
   and leaves what the backend stores as the first flush left it. *)
C6_FlushTwice ==
    (fstype # "csv_import" /\ last.op = "flush" /\ last.path \in DOMAIN files)
        => LET o == flush(fstype, State, last.path)
           IN  o.res.exc = "" /\ o.st.atts = atts /\ o.st.docs = docs

(* C7: write(path, bytes, offset) on a path without a buffer returns -ENOENT
   and changes neither the buffer table nor the backend; on a path with a
   buffer it returns len(bytes) and the buffer then holds bytes at offset,
   what came before offset unchanged. *)
C7_Write ==
    [][Calls("write")
       => LET c == last'
          IN  IF c.path \notin DOMAIN files
              THEN /\ IsNotFound(c.res)
                   /\ StateNext = State
              ELSE /\ c.res = Return("int", Len(c.buf))
                   /\ c.path \in DOMAIN files'
                   /\ LET old == files[c.path].buf
                          new == files'[c.path].buf
                      IN  /\ c.buf # <<>> =>
                                Slice(new, c.offset,
                                      c.offset + Len(c.buf)) = c.buf
                          /\ Slice(new, 0, Min(c.offset, Len(old)))
                                = Slice(old, 0, c.offset)
      ]_vars

(* C8: on an attachment mount, getattr, readdir, open, flush, unlink and rename
   of a path whose second segment is no integer return -ENOENT. *)
C8_NonNumericNotFound ==
    (/\ IsAttachmentMount
     /\ last.op \in {"getattr", "readdir", "open", "flush", "unlink", "rename"}
     /\ Len(last.path) >= 2 /\ ~CanInt(last.path[2]))
        => IsNotFound(last.res)

(* C11: on a document mount getattr of a path that resolves to a node of kind
   database or collection returns a directory with mode 0600 and size 0; to a
   node of kind file, a regular file with mode 0600 whose size is the length
   of the payload the node holds when getattr is called; to a node of any
   other kind, a regular file with mode 0000; and of a path that resolves to
   no node, -ENOENT. *)
C11_DocumentGetattr ==
    (fstype = "document" /\ last.op = "getattr")
        => LET uri == IF last.path = Root THEN <<>> ELSE last.path
           IN  IF uri \notin DOMAIN docs THEN IsNotFound(last.res)
               ELSE IF docs[uri].our_type \in {"database", "collection"}
                    THEN last.res = Return("stat", Stat("dir", "0600", 0, 0))
               ELSE IF docs[uri].our_type = "file"
                    THEN last.res = Return("stat",
                            Stat("reg", "0600", 0, Len(docs[uri].data)))
               ELSE last.res = Return("stat", Stat("reg", "0000", 0, 0))

\* getattr of a file whose payload a flush has made two bytes long
C11_Witness ==
    /\ fstype = "document" /\ last.op = "getattr"
    /\ last.path = <<"dir", "f.txt">>
    /\ last.path \in DOMAIN docs
    /\ Len(docs[last.path].data) = 2
    /\ last.res = Return("stat", Stat("reg", "0600", 0, 2))

(* C12: on an attachment mount, open, unlink and rename of a three-segment
   path with a numeric id that no attachment row answers to each return
   -ENOENT and leave the table of attachments and the records as they were. *)
C12_ZeroMatchesNotFound ==
    [][(/\ IsAttachmentMount
        /\ Calls("open") \/ Calls("unlink") \/ Calls("rename")
        /\ Len(last'.path) = 3
        /\ DomainError(last'.path) = ""
        /\ ~ExistsAttachment(State, last'.path))
       => /\ IsNotFound(last'.res)
          /\ atts' = atts
          /\ recs' = recs
      ]_vars

\* one of the two calls is release
WithRelease == \E t \in Threads : threads[t].op = "release"

(* C13: when release(path) runs concurrently with read, write, truncate or
   flush on the same path, no call ends on a StringIO that release has closed
   (ValueError), no read or write that found its buffer ends on an entry that
   release has removed (KeyError), and the two calls leave the buffer table
   and return what they would in some sequential order. *)
C13_ReleaseSafe ==
    WithRelease =>
        /\ \A t \in Threads : threads[t].res.exc # "ValueError"
        /\ \A t \in Threads :
              threads[t].op \in {"read", "write"}
                  => threads[t].res.exc # "KeyError"
        /\ AllDone => Concurrently \in {InOrder(1, 2), InOrder(2, 1)}

(* C14: open(path) of a path that already has a buffer keeps that buffer: the
   path is still in the table and holds the bytes it held, written and not
   yet flushed included. *)
C14_OpenKeepsBuffer ==
    [][(Calls("open") /\ last'.path \in DOMAIN files)
       => /\ last'.path \in DOMAIN files'
          /\ SIO_getvalue(files'[last'.path]) = SIO_getvalue(files[last'.path])
      ]_vars

\* the step is one of the calls that may add a buffer
Opens == Calls("open") \/ Calls("create") \/ Calls("read")

(* C15: on an attachment or document mount, calls made one after the other
   keep the buffer table in step with the opens and releases: an open, create
   or read that returns leaves a buffer for its path and one that fails adds
   none; release takes the buffer of its path away; no other call adds or
   removes a buffer; and no buffer in the table is a closed one. *)
C15_BufferLifecycle ==
    [][(fstype # "csv_import" /\ Idle /\ last'.op # "")
       => /\ (Opens /\ last'.res.exc = "") => last'.path \in DOMAIN files'
          /\ (Opens /\ last'.res.exc # "") => DOMAIN files' = DOMAIN files
          /\ (Calls("release") /\ last'.res.exc = "")
                => DOMAIN files' = DOMAIN files \ {last'.path}
          /\ ~Opens => DOMAIN files' \subseteq DOMAIN files
          /\ ~Calls("release") => DOMAIN files \subseteq DOMAIN files'
          /\ \A p \in DOMAIN files' : ~IsClosed(files'[p])
      ]_vars

(* C16: truncate(path, length) on a path with a buffer leaves the buffer with
   exactly length bytes: the first length bytes it held, followed by zero
   bytes when it held fewer, so that a flush would store length bytes. *)
C16_TruncateExact ==
    [][(Calls("truncate") /\ last'.path \in DOMAIN files)
       => LET length == last'.size
              old == SIO_getvalue(files[last'.path])
          IN  /\ last'.path \in DOMAIN files'
              /\ SIO_getvalue(files'[last'.path])
                    = Slice(old, 0, length) \o Zeros(length - Len(old))
      ]_vars

(* C17: on a CSV mount, when release(path) of a buffered path ends, whether the
   import went through, the import sink raised, or the text was empty or
   could not be parsed, the path has no buffer any more: getattr(path) returns
   -ENOENT and readdir does not list it. *)
C17_ReleaseDiscards ==
    [][(Calls("release") /\ fstype = "csv_import"
        /\ last'.path \in DOMAIN files /\ last'.path # Root)
       => /\ last'.path \notin DOMAIN files'
          /\ IsNotFound(getattr(fstype, StateNext, last'.path).res)
          /\ ~InSeq(last'.path,
                    readdir(fstype, StateNext, Root).res.val.paths)
      ]_vars

\* the rows of the attachment table, without their order
Rows(T) == {T[i] : i \in 1..Len(T)}

\* the step is a call of a handler that only works on the buffer table
BufferCall ==
    Calls("open") \/ Calls("read") \/ Calls("write") \/ Calls("truncate")
    \/ Calls("release") \/ Calls("getattr") \/ Calls("readdir")

(* C18: on an attachment or document mount, open, read, write, truncate and
   release (and getattr and readdir) leave the backend as it was; flush
   changes payloads only: it adds, moves and removes no row and no node;
   create, rename and unlink change no payload: every row or node they leave
   was there with the same payload, but for the empty one create adds; and
   the size getattr reports for a file is the length of the payload the
   backend holds for it. *)
C18_Frame ==
    [][(fstype # "csv_import" /\ Idle /\ last'.op # "")
       => /\ BufferCall => atts' = atts /\ recs' = recs /\ docs' = docs
          /\ Calls("flush")
                => /\ recs' = recs
                   /\ Len(atts') = Len(atts)
                   /\ \A i \in 1..Len(atts) :
                        [atts'[i] EXCEPT !.datas = NoDatas]
                            = [atts[i] EXCEPT !.datas = NoDatas]
                   /\ DOMAIN docs' = DOMAIN docs
                   /\ \A u \in DOMAIN docs : docs'[u].our_type = docs[u].our_type
          /\ (Calls("create") \/ Calls("rename") \/ Calls("unlink"))
                => /\ recs' = recs
                   /\ Len(atts') >= Len(atts)
                        => \A i \in 1..Len(atts) : atts'[i].datas = atts[i].datas
                   /\ Len(atts') < Len(atts) => Rows(atts') \subseteq Rows(atts)
                   /\ Len(atts') > Len(atts)
                        => /\ Len(atts') = Len(atts) + 1
                           /\ atts'[Len(atts')].datas = NoDatas
                   /\ \A u \in DOMAIN docs' :
                        \/ \E v \in DOMAIN docs : docs'[u] = docs[v]
                        \/ Calls("create") /\ docs'[u] = Node("file", <<>>)
          /\ (Calls("getattr") /\ last'.res.exc = "" /\ last'.res.tag = "stat"
                /\ last'.res.val.type = "reg")
                => IF IsAttachmentMount
                   THEN LET p == last'.path
                            ids == search_name(atts, p[1], int(p[2]), p[3])
                        IN  last'.res.val.size
                                = Len(Payload(atts[ids[1]].datas))
                   ELSE last'.res.val.size = Len(docs[last'.path].data)
      ]_vars

\* write has put bytes in the buffer of /partner/7/a.txt that the row of the
\* attachment does not hold
C18_Witness ==
    /\ IsAttachmentMount /\ last.op = "write" /\ last.path = P7
    /\ last.res = Return("int", 1)
    /\ Len(atts) = 1 /\ ExistsAttachment(State, P7)
    /\ P7 \in DOMAIN files
    /\ SIO_getvalue(files[P7]) # Payload(atts[1].datas)

(* C19: whatever a call of a handler returns or raises, every cursor the
   handler opened is closed when it ends. *)
C19_CursorsClosed == last.op # "" => last.cur = 0

\* the calls that resolve a path
Resolves ==
    Calls("getattr") \/ Calls("open") \/ Calls("create") \/ Calls("flush")
    \/ Calls("unlink") \/ Calls("rename")

(* C20: on an attachment or CSV mount, getattr, open, create, flush, unlink
   and rename of a path of more than three segments (for rename, its source or
   its target) return -ENOENT and change neither the backend nor the buffer
   table. *)
C20_DeepPathsFail ==
    [][(/\ fstype \in {"attachment", "csv_import"}
        /\ Resolves
        /\ Len(last'.path) > 3 \/ Len(last'.path2) > 3)
       => /\ IsNotFound(last'.res)
          /\ StateNext = State
      ]_vars

\* the rows of T that carry the (model, record id, name) of an attachment path
RowsOf(T, p) == search_name(T, p[1], int(p[2]), p[3])

(* C21: on an attachment mount, whenever flush(path) returns without raising,
   the backend holds an attachment row with the path's (model, record id,
   name) whose decoded payload is the whole content of the path's buffer, and
   every row that does not carry the path's (model, record id, name) is as it
   was; so it is too when the path was renamed or unlinked while its buffer
   was open. *)
C21_NoLostFlush ==
    [][(Calls("flush") /\ IsAttachmentMount /\ last'.res.exc = "")
       => LET p == last'.path
          IN  /\ \E i \in 1..Len(atts') :
                    /\ InSeq(i, RowsOf(atts', p))
                    /\ Payload(atts'[i].datas) = SIO_getvalue(files[p])
              /\ Len(atts') = Len(atts)
              /\ \A i \in 1..Len(atts) :
                    ~InSeq(i, RowsOf(atts, p)) => atts'[i] = atts[i]
      ]_vars

====
